---- MODULE Spec2Model ----
(***************************************************************************)
(* nanobot: the TODO.md task tools (nanobot/agent/tools/todo.py) and the   *)
(* heartbeat service (nanobot/heartbeat/service.py).                       *)
(*                                                                         *)
(* Text is modelled as a sequence of one-character strings, so that the    *)
(* substring tests, str.replace, str.splitlines and "\n".join of the code  *)
(* are computed character by character.                                    *)
(*                                                                         *)
(* Specifications: Spec and FairSpec (the service's start, stop and loop   *)
(* tasks), TriggerSpec (trigger_now between start and stop), ClassifySpec  *)
(* (_is_heartbeat_empty on its own), TodoSpec (the tools called one after  *)
(* another), ConcSpec (the tools called concurrently).                     *)
(***************************************************************************)
EXTENDS Integers, Sequences, FiniteSets, TLC

VARIABLES
    todo_file,          \* TODO.md: [exists, content]
    last,               \* the last tool call: its arguments, the file before it, its result
    added,              \* number of AddTask calls made so far (bounded by MaxTasks)
    enabled,            \* HeartbeatService.enabled
    proactive_enabled,  \* HeartbeatService.proactive_enabled
    proactive_chat_id,  \* HeartbeatService.proactive_chat_id
    on_heartbeat,       \* TRUE iff a callback is bound (on_heartbeat is not None)
    running,            \* HeartbeatService._running
    task,               \* HeartbeatService._task: 0 for None, else the loop task's id
    pc,                 \* per loop task: where its coroutine is suspended
    cancelReq,          \* per loop task: task.cancel() was called and not yet delivered
    calls,              \* per loop task: the callback invocations of the tick in progress
    ev,                 \* the last step taken by the scheduler: what it read and did
    ledger,             \* the tasks AddTask has acknowledged, in order: <<priority, task>>
    trig,               \* the trigger_now() call in progress or last made
    cls,                \* a HEARTBEAT.md content handed to _is_heartbeat_empty, and its answer
    procs               \* concurrent tool calls, each at one of its file accesses

todoVars == <<todo_file, last, added, ledger>>
cfgVars  == <<enabled, proactive_enabled, proactive_chat_id, on_heartbeat>>
hbVars   == <<running, task, pc, cancelReq, calls, ev>>
auxVars  == <<trig, cls, procs>>
vars     == <<todo_file, last, added, enabled, proactive_enabled, proactive_chat_id,
              on_heartbeat, running, task, pc, cancelReq, calls, ev, ledger, trig, cls,
              procs>>

\* ------------------------------------------------------------------ bounds
MaxTasks == 2
MaxLoops == 2

\* lines of a HEARTBEAT.md content handed to _is_heartbeat_empty
MaxLines == 2

\* tool calls in progress at the same time
MaxCallers == 3

\* ------------------------------------------------------------------ text
NL == "\n"

\* "- [ ]"
Unchecked == <<"-", " ", "[", " ", "]">>

\* "- [x]"
Checked == <<"-", " ", "[", "x", "]">>

\* "# TODO\n\n"
TodoHeader == <<"#", " ", "T", "O", "D", "O", NL, NL>>

LOW == <<"L", "O", "W">>

NORMAL == <<"N", "O", "R", "M", "A", "L">>

HIGH == <<"H", "I", "G", "H">>

Priorities == {LOW, NORMAL, HIGH}

\* Python: sub in s
Contains(s, sub) ==
    \E i \in 1..(Len(s) - Len(sub) + 1) : SubSeq(s, i, i + Len(sub) - 1) = sub

\* Python: s.startswith(p)
StartsWith(s, p) == Len(s) >= Len(p) /\ SubSeq(s, 1, Len(p)) = p

\* Python: s.replace(old, new), leftmost non-overlapping occurrences, old non-empty
RECURSIVE Replace(_, _, _)
Replace(s, old, new) ==
    IF Len(s) < Len(old) THEN s
    ELSE IF SubSeq(s, 1, Len(old)) = old
         THEN new \o Replace(SubSeq(s, Len(old) + 1, Len(s)), old, new)
         ELSE <<Head(s)>> \o Replace(Tail(s), old, new)

\* Python: s.split("\n"): always at least one piece, a final "\n" gives a final ""
RECURSIVE Split(_)
Split(s) ==
    IF \A i \in 1..Len(s) : s[i] # NL THEN <<s>>
    ELSE LET k == CHOOSE i \in 1..Len(s) :
                      s[i] = NL /\ \A j \in 1..(i - 1) : s[j] # NL
         IN <<SubSeq(s, 1, k - 1)>> \o Split(SubSeq(s, k + 1, Len(s)))

\* Python: s.splitlines() for text whose only line boundary is "\n":
\* no piece for the empty text, none after a final "\n"
SplitLines(s) ==
    IF s = <<>> THEN <<>>
    ELSE IF s[Len(s)] = NL THEN Split(SubSeq(s, 1, Len(s) - 1))
         ELSE Split(s)

\* Python: "\n".join(lines)
RECURSIVE Join(_)
Join(lines) ==
    IF lines = <<>> THEN <<>>
    ELSE IF Len(lines) = 1 THEN lines[1]
         ELSE lines[1] \o <<NL>> \o Join(Tail(lines))

IsSpace(c) == c \in {" ", NL, "\t", "\r"}

\* Python: s.strip()
RECURSIVE Strip(_)
Strip(s) ==
    IF s = <<>> THEN s
    ELSE IF IsSpace(s[1]) THEN Strip(Tail(s))
         ELSE IF IsSpace(s[Len(s)]) THEN Strip(SubSeq(s, 1, Len(s) - 1))
              ELSE s

\* ------------------------------------------------------------------ TODO.md tools
NoFile == [exists |-> FALSE, content |-> <<>>]

File(c) == [exists |-> TRUE, content |-> c]

\* f"- [ ] [{priority}] {task}\n"
TaskLine(priority, t) ==
    Unchecked \o <<" ", "[">> \o priority \o <<"]", " ">> \o t \o <<NL>>

\* the descriptions and match strings the tools are called with
Descriptions == { <<"a">>, <<"b">> \o Unchecked }

Needles == { <<"a">>, <<"b">>, <<"O">>, <<"z">> }

\* where an I/O error strikes a call, if anywhere
IoOutcomes == {"ok", "fail_first", "fail_second"}

\* what a call keeps of the call before it: a successful add or complete, or nothing
NoPrev == [ret |-> "other", arg |-> <<>>, priority |-> <<>>, matches |-> 0]

NoCall ==
    [op |-> "none", arg |-> <<>>, priority |-> <<>>, io |-> "ok",
     before |-> NoFile, ret |-> "none", body |-> <<>>, prev |-> NoPrev]

\* the number of lines of the file that CompleteTask(s) would take for a match
MatchCount(f, s) ==
    IF ~f.exists THEN 0
    ELSE LET lines == SplitLines(f.content)
         IN Cardinality({i \in 1..Len(lines) :
                Contains(lines[i], s) /\ Contains(lines[i], Unchecked)})

Call(op, arg, priority, io, ret, body) ==
    [op |-> op, arg |-> arg, priority |-> priority, io |-> io,
     before |-> todo_file, ret |-> ret, body |-> body,
     prev |-> IF last.ret \in {"added", "completed"}
              THEN [ret |-> last.ret, arg |-> last.arg, priority |-> last.priority,
                    matches |-> MatchCount(last.before, last.arg)]
              ELSE NoPrev]

\* a tool without its handler: the exception leaves execute()
Handled_Reraised(op) == "raised"

\* except Exception as e: return f"Error ...: {str(e)}"   (the same in the three tools)
Handled(op) == "error"

\* TodoAddTaskTool.execute, the content after a successful call: the header when the
\* file was absent, then the appended task line
AddedContent(f, t, priority) ==
    (IF f.exists THEN f.content ELSE TodoHeader) \o TaskLine(priority, t)

AddTask(t, priority, io) ==
    /\ added < MaxTasks
    /\ added' = added + 1
    /\ CASE io = "fail_first" ->
              \* the header write raises (only attempted when the file is absent)
              /\ ~todo_file.exists
              /\ todo_file' = todo_file
              /\ last' = Call("add", t, priority, io, Handled("add"), <<>>)
         [] io = "fail_second" ->
              \* open(..., "a") or the write raises, after the header was written
              /\ todo_file' = IF todo_file.exists THEN todo_file ELSE File(TodoHeader)
              /\ last' = Call("add", t, priority, io, Handled("add"), <<>>)
         [] OTHER ->
              /\ todo_file' = File(AddedContent(todo_file, t, priority))
              /\ last' = Call("add", t, priority, io, "added", <<>>)
    /\ ledger' = IF io = "ok" THEN Append(ledger, <<priority, t>>) ELSE ledger
    /\ UNCHANGED <<cfgVars, hbVars, auxVars>>

\* the filter as a test of the start of the line
PendingLines_StartsWith(lines) ==
    SelectSeq(lines, LAMBDA line : StartsWith(line, Unchecked))

\* [line for line in lines if "- [ ]" in line]
RECURSIVE PendingLines(_)
PendingLines(lines) ==
    IF lines = <<>> THEN <<>>
    ELSE (IF Contains(Head(lines), Unchecked) THEN <<Head(lines)>> ELSE <<>>)
         \o PendingLines(Tail(lines))

\* TodoListTasksTool.execute
ListTasks(only_pending, io) ==
    /\ todo_file' = todo_file
    /\ added' = added
    /\ ledger' = ledger
    /\ IF io # "ok"
       THEN \* exists() is inside the try as well; read_text raising is the usual case
            last' = Call("list", <<>>, <<>>, io, Handled("list"), <<>>)
       ELSE IF ~todo_file.exists
       THEN last' = Call("list", <<>>, <<>>, io, "no_file", <<>>)
       ELSE LET lines == SplitLines(todo_file.content)
                pending_lines == PendingLines(lines)
            IN IF only_pending
               THEN IF pending_lines = <<>>
                    THEN last' = Call("list", <<>>, <<>>, io, "no_pending", <<>>)
                    ELSE last' = Call("list", <<>>, <<>>, io, "pending", Join(pending_lines))
               ELSE IF lines = <<>>
                    THEN last' = Call("list", <<>>, <<>>, io, "empty", <<>>)
                    ELSE last' = Call("list", <<>>, <<>>, io, "all", Join(lines))
    /\ UNCHANGED <<cfgVars, hbVars, auxVars>>

\* the condition without its test of the marker
Matches_AnyStatus(line, task_content) == Contains(line, task_content)

\* task_content in line and "- [ ]" in line
Matches(line, task_content) == Contains(line, task_content) /\ Contains(line, Unchecked)

\* for i, line in enumerate(lines): ... break   (0 when the loop finds nothing)
FirstMatch(lines, task_content) ==
    IF \E i \in 1..Len(lines) : Matches(lines[i], task_content)
    THEN CHOOSE i \in 1..Len(lines) :
             /\ Matches(lines[i], task_content)
             /\ \A j \in 1..(i - 1) : ~Matches(lines[j], task_content)
    ELSE 0

\* the loop without its break: every matching line is rewritten
CompletedLines_NoBreak(lines, task_content) ==
    [j \in 1..Len(lines) |->
        IF Matches(lines[j], task_content)
        THEN Replace(lines[j], Unchecked, Checked) ELSE lines[j]]

\* lines[i] = line.replace("- [ ]", "- [x]") for the first match i
CompletedLines(lines, task_content) ==
    [j \in 1..Len(lines) |->
        IF j = FirstMatch(lines, task_content)
        THEN Replace(lines[j], Unchecked, Checked) ELSE lines[j]]

\* TodoCompleteTaskTool.execute
CompleteTask(task_content, io) ==
    /\ added' = added
    /\ ledger' = ledger
    /\ IF io = "fail_first"
       THEN \* read_text raises
            /\ todo_file' = todo_file
            /\ last' = Call("complete", task_content, <<>>, io, Handled("complete"), <<>>)
       ELSE IF ~todo_file.exists
       THEN /\ todo_file' = todo_file
            /\ last' = Call("complete", task_content, <<>>, io, "no_file", <<>>)
       ELSE LET lines == SplitLines(todo_file.content)
            IN IF FirstMatch(lines, task_content) = 0
               THEN /\ todo_file' = todo_file
                    /\ last' = Call("complete", task_content, <<>>, io, "not_found", <<>>)
               ELSE IF io = "fail_second"
               THEN \* write_text raises
                    /\ todo_file' = todo_file
                    /\ last' = Call("complete", task_content, <<>>, io, Handled("complete"), <<>>)
               ELSE /\ todo_file' = File(Join(CompletedLines(lines, task_content)))
                    /\ last' = Call("complete", task_content, <<>>, io, "completed", <<>>)
    /\ UNCHANGED <<cfgVars, hbVars, auxVars>>

\* ---- the tools called concurrently, one file access at a time
Callers == 1..MaxCallers

\* a caller that has not called yet.  pc: the file access the call is to make next;
\* lines: what a CompleteTask holds between its read and its write-back; unseen: the
\* callers whose append came after this call looked at the file; lost: another
\* caller has written the whole file without this caller's appended line
NotCalled ==
    [op |-> "none", arg |-> <<>>, priority |-> <<>>, pc |-> "idle", lines |-> <<>>,
     ret |-> "none", unseen |-> {}, lost |-> FALSE]

ConcStep(c, p, f) ==
    /\ todo_file' = f
    /\ procs' = [procs EXCEPT ![c] = p]
    /\ UNCHANGED <<last, added, ledger, cfgVars, hbVars, trig, cls>>

\* a whole-file write by c: c's view of the file replaces the file, and with it the
\* lines appended since c looked; the others are told
ConcWholeWrite(c, p, f) ==
    /\ todo_file' = f
    /\ procs' = [q \in Callers |->
                    IF q = c THEN p
                    ELSE [procs[q] EXCEPT !.lost = @ \/ q \in procs[c].unseen]]
    /\ UNCHANGED <<last, added, ledger, cfgVars, hbVars, trig, cls>>

\* self.todo_file_path.write_text("# TODO\n\n"): the file is the header, whatever
\* it held
HeaderWritten(f) == File(TodoHeader)

\* the task line written with mode "w": the file is that line
Appended_Truncating(f, line) == File(line)

\* open(self.todo_file_path, "a") and f.write(line)
Appended(f, line) == File(f.content \o line)

\* AddTask is called: "if not self.todo_file_path.exists():"
ConcAddExists(c, t, priority) ==
    /\ procs[c].pc = "idle"
    /\ ConcStep(c, [NotCalled EXCEPT !.op = "add", !.arg = t, !.priority = priority,
                                     !.pc = IF todo_file.exists THEN "append" ELSE "header"],
                todo_file)

\* the header write of an AddTask that found no file
ConcAddHeader(c) ==
    /\ procs[c].pc = "header"
    /\ ConcWholeWrite(c, [procs[c] EXCEPT !.pc = "append", !.unseen = {}],
                      HeaderWritten(todo_file))

\* with open(..., "a") as f: f.write(...), and the confirmation
ConcAddAppend(c) ==
    /\ procs[c].pc = "append"
    /\ todo_file' = Appended(todo_file, TaskLine(procs[c].priority, procs[c].arg))
    /\ procs' = [q \in Callers |->
                    IF q = c THEN [procs[c] EXCEPT !.pc = "done", !.ret = "added"]
                    ELSE IF procs[q].pc \in {"header", "write"}
                         THEN [procs[q] EXCEPT !.unseen = @ \cup {c}]
                         ELSE procs[q]]
    /\ UNCHANGED <<last, added, ledger, cfgVars, hbVars, trig, cls>>

\* CompleteTask is called: "if not self.todo_file_path.exists():"
ConcCompleteExists(c, task_content) ==
    /\ procs[c].pc = "idle"
    /\ ConcStep(c, IF todo_file.exists
                   THEN [NotCalled EXCEPT !.op = "complete", !.arg = task_content,
                                          !.pc = "read"]
                   ELSE [NotCalled EXCEPT !.op = "complete", !.arg = task_content,
                                          !.pc = "done", !.ret = "no_file"],
                todo_file)

\* read_text, splitlines and the loop over the lines
ConcCompleteRead(c) ==
    /\ procs[c].pc = "read"
    /\ LET lines == SplitLines(todo_file.content)
       IN ConcStep(c, IF FirstMatch(lines, procs[c].arg) = 0
                      THEN [procs[c] EXCEPT !.pc = "done", !.ret = "not_found"]
                      ELSE [procs[c] EXCEPT !.pc = "write",
                                            !.lines = CompletedLines(lines, procs[c].arg)],
                   todo_file)

\* self.todo_file_path.write_text("\n".join(lines)), and the confirmation
ConcCompleteWrite(c) ==
    /\ procs[c].pc = "write"
    /\ ConcWholeWrite(c, [procs[c] EXCEPT !.pc = "done", !.ret = "completed",
                                          !.lines = <<>>, !.unseen = {}],
                      File(Join(procs[c].lines)))

\* ------------------------------------------------------------------ heartbeat service
Loops == 1..MaxLoops

\* the loop task is suspended in an awaited callback: a tick is in progress
CallStates == {"call3", "call1", "call_hb"}

\* what a tick finds when it looks at a file of the workspace
NoRead == [done |-> FALSE, exists |-> FALSE, ok |-> FALSE, content |-> <<>>]

Absent == [done |-> TRUE, exists |-> FALSE, ok |-> FALSE, content |-> <<>>]

Unreadable == [done |-> TRUE, exists |-> TRUE, ok |-> FALSE, content |-> <<>>]

Read(c) == [done |-> TRUE, exists |-> TRUE, ok |-> TRUE, content |-> c]

\* TODO.md as the tools leave it: one pending task, one completed task
TodoReads ==
    {Absent, Unreadable,
     Read(TodoHeader \o TaskLine(LOW, <<"a">>)),
     Read(Replace(TodoHeader \o TaskLine(LOW, <<"a">>), Unchecked, Checked))}

\* HEARTBEAT.md: "# n\n\n- [ ]\n" has nothing to act on, "- [ ] a\n" has
HeartbeatReads ==
    {Absent, Unreadable,
     Read(<<"#", " ", "n", NL, NL>> \o Unchecked \o <<NL>>),
     Read(Unchecked \o <<" ", "a", NL>>)}

NoEvent(kind, l) ==
    [kind |-> kind, loop |-> l, began |-> FALSE, ended |-> "no", calls |-> <<>>,
     todo |-> NoRead, step2 |-> FALSE, hb |-> NoRead, finished |-> "none",
     outcome |-> "none", exited |-> FALSE]

\* _read_heartbeat_file: the text, or None
read_heartbeat_file(hb) ==
    IF hb.exists /\ hb.ok THEN [none |-> FALSE, text |-> hb.content]
    ELSE [none |-> TRUE, text |-> <<>>]

skip_patterns ==
    {Unchecked, <<"*", " ", "[", " ", "]">>, Checked, <<"*", " ", "[", "x", "]">>}

\* the test of one stripped line in _is_heartbeat_empty
SkippedLine(line) ==
    \/ line = <<>>
    \/ StartsWith(line, <<"#">>)
    \/ StartsWith(line, <<"<", "!", "-", "-">>)
    \/ line \in skip_patterns

\* the test of the lines as they are, untrimmed
is_heartbeat_empty_NoStrip(content) ==
    \/ content.none
    \/ content.text = <<>>
    \/ LET lines == Split(content.text)
       IN \A i \in 1..Len(lines) : SkippedLine(lines[i])

\* _is_heartbeat_empty
is_heartbeat_empty(content) ==
    \/ content.none
    \/ content.text = <<>>
    \/ LET lines == Split(content.text)
       IN \A i \in 1..Len(lines) : SkippedLine(Strip(lines[i]))

\* TODO.md's content as _tick holds it: "" when read_text raised
TodoContent(todo) == IF todo.ok THEN todo.content ELSE <<>>

\* the proactive condition without the chat id test
ProactiveFires_NoChatId(todo) ==
    /\ todo.exists
    /\ Contains(TodoContent(todo), Unchecked)
    /\ proactive_enabled /\ on_heartbeat

\* _tick, step 1: whether the callback is invoked with the pending-tasks prompt
ProactiveFires(todo) ==
    /\ todo.exists
    /\ Contains(TodoContent(todo), Unchecked)
    /\ proactive_enabled /\ proactive_chat_id # "" /\ on_heartbeat

\* a retry on every exception
RetriesOn_Any(exc) == exc \in {"TypeError", "Exception"}

\* _tick, step 1: the exceptions of the three-argument call that start the retry
RetriesOn(exc) == exc = "TypeError"

\* step 2 without the test of the content
CallsOnTick_NoEmptyTest(content) == on_heartbeat

\* _tick, step 2: whether the callback is invoked with HEARTBEAT_PROMPT
CallsOnTick(content) == ~is_heartbeat_empty(content) /\ on_heartbeat

\* the wake-up without the second look at the flag
WakeRuns_Always == TRUE

\* _run_loop: "if self._running:" after the sleep
WakeRuns == running

\* _run_loop without "except Exception"
NextPc_NoCatch(how) ==
    IF how \in {"cancelled", "raised"} THEN "done"
    ELSE IF running THEN "sleep" ELSE "done"

\* _run_loop: where the loop goes when a tick has returned, raised or been
\* cancelled: CancelledError breaks, anything else is logged, then "while self._running"
NextPc(how) ==
    IF how = "cancelled" THEN "done"
    ELSE IF running THEN "sleep" ELSE "done"

\* one step of loop task l: it is left suspended at newpc
Resume(l, newpc, event) ==
    /\ pc' = [pc EXCEPT ![l] = newpc]
    /\ calls' = [calls EXCEPT ![l] = IF newpc \in CallStates THEN event.calls ELSE <<>>]
    /\ ev' = [event EXCEPT !.exited = (newpc = "done")]
    /\ UNCHANGED <<running, task, cfgVars, todoVars, auxVars>>

\* the tick of loop task l leaves _tick (returned or raised) or is cancelled
TickEnds(l, how, event) ==
    Resume(l, NextPc(how), [event EXCEPT !.ended = how])

\* _tick, step 2, with cs the calls of the tick so far
InstructionsCheck(l, cs, event, hb) ==
    LET e == [event EXCEPT !.step2 = TRUE, !.hb = hb]
    IN IF CallsOnTick(read_heartbeat_file(hb))
       THEN Resume(l, "call_hb", [e EXCEPT !.calls = cs \o <<"hb">>])
       ELSE TickEnds(l, "returned", [e EXCEPT !.calls = cs])

\* the lowest id no live loop task holds
FreeLoop ==
    CHOOSE l \in Loops :
        /\ pc[l] \in {"unborn", "done"}
        /\ \A k \in 1..(l - 1) : pc[k] \notin {"unborn", "done"}

\* start() without its test of the switch
StartReturnsEarly_Never == FALSE

\* start: "if not self.enabled: ... return"
StartReturnsEarly == ~enabled

\* HeartbeatService.start
Start ==
    /\ ev' = NoEvent("start", 0)
    /\ IF StartReturnsEarly
       THEN UNCHANGED <<running, task, pc, cancelReq, calls>>
       ELSE /\ \E l \in Loops : pc[l] \in {"unborn", "done"}
            /\ running' = TRUE
            /\ task' = FreeLoop
            /\ pc' = [pc EXCEPT ![FreeLoop] = "created"]
            /\ cancelReq' = [cancelReq EXCEPT ![FreeLoop] = FALSE]
            /\ calls' = [calls EXCEPT ![FreeLoop] = <<>>]
    /\ UNCHANGED <<cfgVars, todoVars, auxVars>>

\* HeartbeatService.stop
Stop ==
    /\ ev' = NoEvent("stop", 0)
    /\ running' = FALSE
    /\ cancelReq' = IF task # 0 /\ pc[task] # "done"
                    THEN [cancelReq EXCEPT ![task] = TRUE]
                    ELSE cancelReq
    /\ task' = 0
    /\ UNCHANGED <<pc, calls, cfgVars, todoVars, auxVars>>

\* the loop task runs for the first time: "while self._running", then the sleep;
\* a task cancelled before its first step never enters the coroutine
LoopStarts(l) ==
    /\ pc[l] = "created"
    /\ cancelReq' = [cancelReq EXCEPT ![l] = FALSE]
    /\ Resume(l, IF cancelReq[l] THEN "done" ELSE IF running THEN "sleep" ELSE "done",
              NoEvent("loop_started", l))

\* asyncio.sleep returns: "if self._running: await self._tick()"; _tick runs up to
\* its first awaited callback, or to its end
TimerExpires(l) ==
    /\ pc[l] = "sleep"
    /\ ~cancelReq[l]
    /\ UNCHANGED cancelReq
    /\ IF WakeRuns
       THEN \E todo \in TodoReads :
               LET e == [NoEvent("tick", l) EXCEPT !.began = TRUE, !.todo = todo]
               IN IF ProactiveFires(todo)
                  THEN Resume(l, "call3", [e EXCEPT !.calls = <<"p3">>])
                  ELSE \E hb \in HeartbeatReads : InstructionsCheck(l, <<>>, e, hb)
       ELSE Resume(l, NextPc("skipped"), NoEvent("woke_stopped", l))

\* task.cancel() reaches the loop task in its sleep: CancelledError, break
SleepCancelled(l) ==
    /\ pc[l] = "sleep"
    /\ cancelReq[l]
    /\ cancelReq' = [cancelReq EXCEPT ![l] = FALSE]
    /\ Resume(l, "done", NoEvent("sleep_cancelled", l))

Finished(l, call, outcome) ==
    [NoEvent("tick", l) EXCEPT !.calls = calls[l], !.finished = call, !.outcome = outcome]

CallOf(l) == calls[l][Len(calls[l])]

\* task.cancel() reaches the loop task in an awaited callback, which lets the
\* CancelledError through: neither "except TypeError" nor "except Exception" holds it
CallbackCancelled(l) ==
    /\ pc[l] \in CallStates
    /\ cancelReq[l]
    /\ cancelReq' = [cancelReq EXCEPT ![l] = FALSE]
    /\ TickEnds(l, "cancelled", Finished(l, CallOf(l), "CancelledError"))

\* ... or the callback catches the CancelledError and carries on
CallbackShieldsCancel(l) ==
    /\ pc[l] \in CallStates
    /\ cancelReq[l]
    /\ cancelReq' = [cancelReq EXCEPT ![l] = FALSE]
    /\ Resume(l, pc[l], [Finished(l, "none", "none") EXCEPT !.kind = "shielded"])

\* await self.on_heartbeat(prompt, channel, chat_id) returns: on to step 2
Call3Returns(l) ==
    /\ pc[l] = "call3"
    /\ ~cancelReq[l]
    /\ UNCHANGED cancelReq
    /\ \E hb \in HeartbeatReads :
          InstructionsCheck(l, calls[l], Finished(l, "p3", "returned"), hb)

\* ... or raises: TypeError starts the one-argument call, anything else leaves _tick
Call3Raises(l, exc) ==
    /\ pc[l] = "call3"
    /\ ~cancelReq[l]
    /\ UNCHANGED cancelReq
    /\ IF RetriesOn(exc)
       THEN Resume(l, "call1",
                   [Finished(l, "p3", exc) EXCEPT !.calls = calls[l] \o <<"p1">>])
       ELSE TickEnds(l, "raised", Finished(l, "p3", exc))

\* await self.on_heartbeat(prompt) returns: on to step 2
Call1Returns(l) ==
    /\ pc[l] = "call1"
    /\ ~cancelReq[l]
    /\ UNCHANGED cancelReq
    /\ \E hb \in HeartbeatReads :
          InstructionsCheck(l, calls[l], Finished(l, "p1", "returned"), hb)

\* ... or raises, inside the "except TypeError" handler: it leaves _tick
Call1Raises(l, exc) ==
    /\ pc[l] = "call1"
    /\ ~cancelReq[l]
    /\ UNCHANGED cancelReq
    /\ TickEnds(l, "raised", Finished(l, "p1", exc))

\* await self.on_heartbeat(HEARTBEAT_PROMPT) returns or raises: the response is
\* looked at, an exception is logged ("except Exception"), and _tick returns
HeartbeatCallEnds(l, outcome) ==
    /\ pc[l] = "call_hb"
    /\ ~cancelReq[l]
    /\ UNCHANGED cancelReq
    /\ TickEnds(l, "returned", Finished(l, "hb", outcome))

Exceptions == {"TypeError", "Exception"}

\* ---- _is_heartbeat_empty on its own
\* the lines the contents are built from, each with what kind of line it is: blank,
\* heading, comment, bare checkbox (these carry nothing to act on), or other
Kind(text, kind) == [text |-> text, kind |-> kind]

LineKinds ==
    {Kind(<<>>, "blank"),
     Kind(<<" ">>, "blank"),
     Kind(<<" ", "#", "n">>, "heading"),
     Kind(<<"<", "!", "-", "-", "c">>, "comment"),
     Kind(Unchecked, "checkbox"),
     Kind(<<" ">> \o <<"*", " ", "[", "x", "]">> \o <<" ">>, "checkbox"),
     Kind(Unchecked \o <<" ", "a">>, "other"),
     Kind(<<"-", " ", "[", "X", "]">>, "other"),
     Kind(<<"a", "#">>, "other"),
     Kind(<<"-", "[", " ", "]">>, "other")}

Contents == UNION {[1..n -> LineKinds] : n \in 0..MaxLines}

\* nothing has been classified yet
NotClassified == [kinds |-> <<>>, none |-> TRUE, text |-> <<>>, result |-> "unset"]

\* _is_heartbeat_empty(None)
ClassifyNone ==
    /\ cls = NotClassified
    /\ cls' = [kinds |-> <<>>, none |-> TRUE, text |-> <<>>,
               result |-> IF is_heartbeat_empty([none |-> TRUE, text |-> <<>>])
                          THEN "empty" ELSE "non-empty"]
    /\ UNCHANGED <<cfgVars, hbVars, todoVars, trig, procs>>

\* _is_heartbeat_empty("\n".join(lines)) for the lines of the given kinds
Classify(kinds) ==
    LET text == Join([i \in 1..Len(kinds) |-> kinds[i].text])
    IN /\ cls = NotClassified
       /\ cls' = [kinds |-> kinds, none |-> FALSE, text |-> text,
                  result |-> IF is_heartbeat_empty([none |-> FALSE, text |-> text])
                             THEN "empty" ELSE "non-empty"]
       /\ UNCHANGED <<cfgVars, hbVars, todoVars, trig, procs>>

\* ---- trigger_now
\* no trigger_now() has been called yet.  calls: the shapes of the callback calls made
\* by the trigger_now() in progress or last made, "t1" for on_heartbeat(prompt), "t3" for
\* on_heartbeat(prompt, "cli", "trigger"); raised: what those calls raised; ret: what
\* trigger_now() handed to its caller
NoTrigger == [pc |-> "idle", calls |-> <<>>, raised |-> <<>>, ret |-> "none"]

\* a fallback on every exception
TriggerRetriesOn_Any(exc) == exc \in {"TypeError", "Exception"}

\* trigger_now: "except TypeError:"
TriggerRetriesOn(exc) == exc = "TypeError"

TriggerStep(t) ==
    /\ trig' = t
    /\ UNCHANGED <<cfgVars, hbVars, todoVars, cls, procs>>

\* trigger_now() is called: "if self.on_heartbeat:" and the one-argument call, or None
TriggerNow ==
    /\ trig.pc = "idle"
    /\ IF on_heartbeat
       THEN TriggerStep([pc |-> "call1", calls |-> <<"t1">>, raised |-> <<>>, ret |-> "none"])
       ELSE TriggerStep([pc |-> "idle", calls |-> <<>>, raised |-> <<>>, ret |-> "None"])

\* return await self.on_heartbeat(HEARTBEAT_PROMPT)
Trigger1Returns ==
    /\ trig.pc = "call1"
    /\ TriggerStep([trig EXCEPT !.pc = "idle", !.ret = "response1"])

\* the one-argument call raises: TypeError starts the fallback, anything else leaves
\* trigger_now()
Trigger1Raises(exc) ==
    /\ trig.pc = "call1"
    /\ IF TriggerRetriesOn(exc)
       THEN TriggerStep([trig EXCEPT !.pc = "call3", !.calls = @ \o <<"t3">>,
                                     !.raised = @ \o <<exc>>])
       ELSE TriggerStep([trig EXCEPT !.pc = "idle", !.raised = @ \o <<exc>>,
                                     !.ret = "raised"])

\* return await self.on_heartbeat(HEARTBEAT_PROMPT, "cli", "trigger")
Trigger3Returns ==
    /\ trig.pc = "call3"
    /\ TriggerStep([trig EXCEPT !.pc = "idle", !.ret = "response3"])

\* the fallback call raises: nothing catches it
Trigger3Raises(exc) ==
    /\ trig.pc = "call3"
    /\ TriggerStep([trig EXCEPT !.pc = "idle", !.raised = @ \o <<exc>>, !.ret = "raised"])

Init ==
    /\ todo_file = NoFile
    /\ last = NoCall
    /\ added = 0
    /\ enabled \in BOOLEAN
    /\ proactive_enabled \in BOOLEAN
    /\ proactive_chat_id \in {"", "chat"}
    /\ on_heartbeat \in BOOLEAN
    /\ running = FALSE
    /\ task = 0
    /\ pc = [l \in Loops |-> "unborn"]
    /\ cancelReq = [l \in Loops |-> FALSE]
    /\ calls = [l \in Loops |-> <<>>]
    /\ ev = NoEvent("init", 0)
    /\ ledger = <<>>
    /\ trig = NoTrigger
    /\ cls = NotClassified
    /\ procs = [c \in Callers |-> NotCalled]

LoopStep(l) ==
    \/ LoopStarts(l)
    \/ TimerExpires(l)
    \/ SleepCancelled(l)
    \/ CallbackCancelled(l)
    \/ CallbackShieldsCancel(l)
    \/ Call3Returns(l)
    \/ \E exc \in Exceptions : Call3Raises(l, exc)
    \/ Call1Returns(l)
    \/ \E exc \in Exceptions : Call1Raises(l, exc)
    \/ \E outcome \in {"returned"} \cup Exceptions : HeartbeatCallEnds(l, outcome)

Next ==
    \/ Start
    \/ Stop
    \/ \E l \in Loops : LoopStep(l)

\* one scheduler instance: start() and stop() at any time, its loop tasks and callbacks
Spec == Init /\ [][Next]_vars

\* the configuration in which every path of _tick can be taken: with a callback
\* bound and the proactive path configured, what a tick does is decided by what it
\* reads, and the runs of the loop tasks under any other configuration are among these
FairInit ==
    /\ Init
    /\ enabled /\ proactive_enabled /\ proactive_chat_id = "chat" /\ on_heartbeat

\* the event loop runs every task that can run: a loop task that can take a step
\* (its timer expiring, its cancellation delivered, its awaited callback returning or
\* raising) takes one; start() and stop() are under no such obligation
FairSpec == FairInit /\ [][Next]_vars /\ \A l \in Loops : WF_vars(LoopStep(l))

\* the tools alone, on a scheduler that is never started
\* trigger_now() called at any point between start() and stop() calls
TriggerNext ==
    \/ Start
    \/ Stop
    \/ TriggerNow
    \/ Trigger1Returns
    \/ \E exc \in Exceptions : Trigger1Raises(exc)
    \/ Trigger3Returns
    \/ \E exc \in Exceptions : Trigger3Raises(exc)

TriggerSpec == Init /\ [][TriggerNext]_vars

\* _is_heartbeat_empty applied once, to None or to a content of up to MaxLines lines
ClassifyNext ==
    \/ ClassifyNone
    \/ \E kinds \in Contents : Classify(kinds)

ClassifySpec == Init /\ [][ClassifyNext]_vars

TodoInit ==
    /\ Init
    /\ enabled /\ ~proactive_enabled /\ proactive_chat_id = "" /\ ~on_heartbeat

TodoNext ==
    \/ \E t \in Descriptions, p \in Priorities, io \in IoOutcomes : AddTask(t, p, io)
    \/ \E only_pending \in BOOLEAN, io \in {"ok", "fail_first"} : ListTasks(only_pending, io)
    \/ \E s \in Needles, io \in IoOutcomes : CompleteTask(s, io)

\* the three tools called one after another, from an absent TODO.md
TodoSpec == TodoInit /\ [][TodoNext]_vars

\* AddTask and CompleteTask calls interleaved at their file accesses; the tasks are
\* added with the default priority
ConcNext ==
    \E c \in Callers :
        \/ \E t \in Descriptions : ConcAddExists(c, t, NORMAL)
        \/ ConcAddHeader(c)
        \/ ConcAddAppend(c)
        \/ \E s \in {<<"a">>, <<"b">>} : ConcCompleteExists(c, s)
        \/ ConcCompleteRead(c)
        \/ ConcCompleteWrite(c)

ConcSpec == TodoInit /\ [][ConcNext]_vars

\* ------------------------------------------------------------------ claims: TODO.md tools
BeforeLines == SplitLines(last.before.content)

AfterLines == SplitLines(todo_file.content)

\* the indices of the pending lines of the file before the call that contain s
PendingMatches(s) ==
    {i \in 1..Len(BeforeLines) :
        Contains(BeforeLines[i], Unchecked) /\ Contains(BeforeLines[i], s)}

Min(S) == CHOOSE i \in S : \A j \in S : i <= j

\* the lines a successful AddTask finds in place: those of the file, or of the header
\* it has just written when the file was absent
LinesBeforeAppend ==
    IF last.before.exists THEN BeforeLines ELSE SplitLines(TodoHeader)

\* C3: task lines are never reordered, merged or deleted: a successful AddTask adds
\* exactly one new line, the task's, after all existing lines, which stay as they were;
\* a successful CompleteTask keeps the number of lines and changes one line only, and
\* that line only in its markers; every other call leaves the file as it was
\* (an AddTask that fails may still have written the header).
C3_LinesOnlyAppendedOrFlipped ==
    /\ last.ret = "added" =>
          /\ Len(AfterLines) = Len(LinesBeforeAppend) + 1
          /\ SubSeq(AfterLines, 1, Len(LinesBeforeAppend)) = LinesBeforeAppend
          /\ AfterLines[Len(AfterLines)] \o <<NL>> = TaskLine(last.priority, last.arg)
    /\ last.ret = "completed" =>
          /\ Len(AfterLines) = Len(BeforeLines)
          /\ Cardinality({i \in 1..Len(BeforeLines) : AfterLines[i] # BeforeLines[i]}) = 1
          /\ \A i \in 1..Len(BeforeLines) :
                AfterLines[i] # BeforeLines[i] =>
                    AfterLines[i] = Replace(BeforeLines[i], Unchecked, Checked)
    /\ last.ret \notin {"added", "completed"} =>
          \/ todo_file = last.before
          \/ last.op = "add" /\ ~last.before.exists /\ todo_file = File(TodoHeader)

\* C4: when one or more pending lines contain s, CompleteTask(s) succeeds (I/O
\* permitting) and checks the first such line only: that line no longer holds an
\* unchecked marker, the file has as many lines as before and every other line is
\* character for character what it was.
C4_OnlyFirstMatchChecked ==
    last.op = "complete" /\ last.before.exists /\ PendingMatches(last.arg) # {} =>
        /\ last.io = "ok" => last.ret = "completed"
        /\ last.ret = "completed" =>
              LET i == Min(PendingMatches(last.arg))
              IN /\ Len(AfterLines) = Len(BeforeLines)
                 /\ ~Contains(AfterLines[i], Unchecked)
                 /\ Contains(AfterLines[i], Checked)
                 /\ \A j \in 1..Len(BeforeLines) : j # i => AfterLines[j] = BeforeLines[j]

\* C4 witness: a CompleteTask succeeded on a file where two pending lines contained s
C4_Witness ==
    /\ last.op = "complete"
    /\ last.ret = "completed"
    /\ Cardinality(PendingMatches(last.arg)) >= 2

\* the text AddTask writes for a task, without the end of line: "- [ ] [p] d"
TaskText(priority, t) == Unchecked \o <<" ", "[">> \o priority \o <<"]", " ">> \o t

C12_NoMatchLeavesFileAlone ==
    /\ (/\ last.op = "complete"
        /\ last.io # "fail_first"
        /\ last.prev.ret = "completed"
        /\ last.prev.arg = last.arg
        /\ last.prev.matches = 1) =>
           /\ last.ret = "not_found"
           /\ todo_file = last.before
    /\ (/\ last.op = "complete"
        /\ last.io # "fail_first"
        /\ (~last.before.exists \/ PendingMatches(last.arg) = {})) =>
           /\ last.ret = IF last.before.exists THEN "not_found" ELSE "no_file"
           /\ todo_file = last.before

\* C12 witness: the same CompleteTask(s) made twice in a row, the first one successful
\* on the only pending line that contained s, the second one answered "not found"
C12_Witness ==
    /\ last.op = "complete"
    /\ last.prev.ret = "completed"
    /\ last.prev.arg = last.arg
    /\ last.prev.matches = 1
    /\ last.ret = "not_found"
    /\ todo_file = last.before

\* what execute() hands back as a string
Messages == {"added", "error", "no_file", "no_pending", "pending", "empty", "all",
             "not_found", "completed"}

\* the I/O error of the call did strike: the access it was to hit was attempted
IoErrorStruck ==
    \/ last.op = "add" /\ last.io = "fail_first" /\ ~last.before.exists
    \/ last.op = "add" /\ last.io = "fail_second"
    \/ last.op = "list" /\ last.io = "fail_first"
    \/ last.op = "complete" /\ last.io = "fail_first"
    \/ last.op = "complete" /\ last.io = "fail_second"
           /\ last.before.exists /\ PendingMatches(last.arg) # {}

\* C13: AddTask, ListTasks and CompleteTask return a string in every case; when a
\* file access of the call fails, at whichever step, the string is the call's error
\* message and nothing is raised to the caller.
C13_AlwaysAString ==
    last.op # "none" =>
        /\ last.ret \in Messages
        /\ IoErrorStruck => last.ret = "error"

\* C13 witness: the write-back of a CompleteTask that had found its line failed
C13_Witness ==
    /\ last.op = "complete"
    /\ last.io = "fail_second"
    /\ IoErrorStruck
    /\ last.ret = "error"

\* line with the five characters from position k on replaced by the checked marker
CheckedAt(line, k) ==
    SubSeq(line, 1, k - 1) \o Checked \o SubSeq(line, k + Len(Unchecked), Len(line))

\* C17: when CompleteTask(s) succeeds, the line it has modified is the line as it was
\* with one unchecked marker rewritten to the checked marker; every other character of
\* the line, a further "- [ ]" inside the line included, is what it was.
C17_OneMarkerRewritten ==
    last.ret = "completed" =>
        \A i \in 1..Len(BeforeLines) :
            AfterLines[i] # BeforeLines[i] =>
                \E k \in 1..(Len(BeforeLines[i]) - Len(Unchecked) + 1) :
                    /\ SubSeq(BeforeLines[i], k, k + Len(Unchecked) - 1) = Unchecked
                    /\ AfterLines[i] = CheckedAt(BeforeLines[i], k)

\* a task's own text, as AddTask wrote it after the marker: "[p] d"
OwnText(entry) == <<"[">> \o entry[1] \o <<"]", " ">> \o entry[2]

\* whether each task of the ledger is pending in the content: the tasks lie in the
\* content in the order of the ledger, from position pos on, each as its marker, a
\* space and its own text, followed by an end of line or directly by the next task
RECURSIVE PendingAt(_, _, _)
PendingAt(content, pos, entries) ==
    IF entries = <<>> THEN <<>>
    ELSE LET next == pos + Len(Unchecked) + 1 + Len(OwnText(Head(entries)))
             after == IF next <= Len(content) /\ content[next] = NL THEN next + 1 ELSE next
         IN <<SubSeq(content, pos, pos + Len(Unchecked) - 1) = Unchecked>>
            \o PendingAt(content, after, Tail(entries))

PendingTasks(f) == PendingAt(f.content, Len(TodoHeader) + 1, ledger)

\* C18: CompleteTask(s) reports success only if, just before the call, some task that
\* is still pending has s in its own text, and every task the call marks completed is
\* such a task: a completed task never makes the call succeed, and a pending task
\* whose text does not contain s is never marked completed by it.
C18_SucceedsOnlyOnPendingMatch ==
    last.ret = "completed" =>
        LET before == PendingTasks(last.before)
            after == PendingTasks(todo_file)
        IN /\ \E k \in 1..Len(ledger) : before[k] /\ Contains(OwnText(ledger[k]), last.arg)
           /\ \A k \in 1..Len(ledger) :
                 (before[k] /\ ~after[k]) => Contains(OwnText(ledger[k]), last.arg)

\* the number of places of text where sub begins
Occurrences(text, sub) ==
    Cardinality({k \in 1..(Len(text) - Len(sub) + 1) :
                    SubSeq(text, k, k + Len(sub) - 1) = sub})

\* text with every task read as completed: a task is in the file pending or completed
AsCompleted(text) == Replace(text, Unchecked, Checked)

AllFinished == \A c \in Callers : procs[c].pc \in {"idle", "done"}

Acknowledged(c) == procs[c].ret = "added"

SameTask(c, q) == procs[c].arg = procs[q].arg /\ procs[c].priority = procs[q].priority

\* the file holds the task of each caller of the set S as often as S has callers
\* that added that very task
AllInFile(S) ==
    \A c \in S :
        Occurrences(AsCompleted(todo_file.content),
                    AsCompleted(TaskText(procs[c].priority, procs[c].arg)))
            >= Cardinality({q \in S : SameTask(c, q)})

\* C20 as stated: under any interleaving of concurrent AddTask and CompleteTask calls
\* at their file accesses, every task whose AddTask returned the confirmation is in
\* the file, pending or completed, once all calls have finished.
C20_NoAcknowledgedAddLost ==
    AllFinished => AllInFile({c \in Callers : Acknowledged(c)})

\* C20, amended: once all calls have finished the file holds every acknowledged task
\* except those lost to a whole-file write made from a view of the file taken before
\* the task was appended: the write-back of a CompleteTask that had read the file
\* earlier, or the header write of an AddTask that had found no file earlier.
C20_AddLostOnlyToStaleWrite ==
    AllFinished => AllInFile({c \in Callers : Acknowledged(c) /\ ~procs[c].lost})

\* C20 witness: all calls have finished; one acknowledged task is in the file,
\* another was lost, and a CompleteTask has written the file back
C20_Witness ==
    /\ AllFinished
    /\ \E c, q, r \in Callers :
          /\ Acknowledged(c) /\ ~procs[c].lost
          /\ Acknowledged(q) /\ procs[q].lost
          /\ procs[r].ret = "completed"
          /\ AllInFile({c})

\* ------------------------------------------------------------------ claims: heartbeat
InCalls(c, cs) == \E i \in 1..Len(cs) : cs[i] = c

Count(c, cs) == Cardinality({i \in 1..Len(cs) : cs[i] = c})

\* the step just taken ended a tick otherwise than by cancellation
TickLeft == ev.kind = "tick" /\ ev.ended \in {"returned", "raised"}

\* C1: a tick whose proactive step invoked the callback goes on to the instructions
\* check (it reads HEARTBEAT.md, in the step that ends it or before its on-tick call),
\* whether the proactive calls returned or raised.
C1_ProactiveTickReachesStep2 ==
    (TickLeft /\ InCalls("p3", ev.calls)) => (ev.step2 \/ InCalls("hb", ev.calls))

\* C2: whatever start() and stop() calls were made, at most one tick of the instance
\* is in progress (suspended in its awaited callback) at any time.
C2_TicksSerialized ==
    Cardinality({l \in Loops : pc[l] \in CallStates}) <= 1

\* C8: at most one loop task of the instance is active: alive, not cancelled, and
\* with the running flag set, so that its next timer expiry runs a tick.
C8_AtMostOneActiveLoop ==
    running =>
        Cardinality({l \in Loops :
            pc[l] \in {"created", "sleep"} \cup CallStates /\ ~cancelReq[l]}) <= 1

\* C5: no tick begins while the running flag is down, that is from a stop() to the
\* next start(); and after a stop(), unless start() is called again, every loop
\* suspended in its sleep leaves it, which it can then only do by ending.
C5_StopInSleepEndsLoop ==
    /\ [](ev.began => running)
    /\ [][\A l \in Loops :
            (~running /\ pc[l] = "sleep" /\ pc'[l] # "sleep") => pc'[l] = "done"]_vars
    /\ (ev.kind = "stop") ~> (ev.kind = "start" \/ \A l \in Loops : pc[l] # "sleep")

\* C5 witness: stop() found the loop in its sleep, and the loop has ended there
C5_Witness ==
    /\ ev.kind = "sleep_cancelled"
    /\ pc[ev.loop] = "done"
    /\ ~running

\* C6: a callback that raises TypeError or any other Exception, in step 1 or step 2,
\* never ends the loop while the scheduler is running: the loop is back in its sleep
\* (or in the one-argument retry); and while the scheduler is running, timers firing
\* and callbacks ending, the loop task it holds begins another tick unless stop() is
\* called.
C6_FailingTickKeepsLoopAlive ==
    /\ []((ev.kind = "tick" /\ ev.outcome \in Exceptions /\ running) =>
             /\ pc[ev.loop] # "done"
             /\ ev.ended # "no" => pc[ev.loop] = "sleep")
    /\ (running /\ task # 0) ~> ((ev.began /\ ev.loop = task) \/ ev.kind = "stop")

\* C6 witness: the three-argument call raised a non-TypeError exception, which left
\* _tick, and the loop is in its sleep again
C6_Witness ==
    /\ ev.finished = "p3"
    /\ ev.outcome = "Exception"
    /\ ev.ended = "raised"
    /\ running
    /\ pc[ev.loop] = "sleep"

\* the proactive invocations of a tick begin with the three-argument one, and the
\* one-argument one only ever follows it
ThreeArgumentFirst ==
    /\ \A l \in Loops :
          /\ pc[l] = "call3" => calls[l] = <<"p3">>
          /\ pc[l] = "call1" => calls[l] = <<"p3", "p1">>
    /\ InCalls("p1", ev.calls) => SubSeq(ev.calls, 1, 2) = <<"p3", "p1">>
    /\ Count("p3", ev.calls) <= 1 /\ Count("p1", ev.calls) <= 1

\* a three-argument call that returns is the tick's only proactive invocation
OnceWhenNoRaise ==
    (ev.finished = "p3" /\ ev.outcome = "returned") =>
        /\ ~InCalls("p1", ev.calls)
        /\ pc[ev.loop] # "call1"

\* C7 as stated: the callback is retried with one argument if the three-argument
\* call raises, whatever it raises.
C7_RetriedWheneverItRaises ==
    /\ ThreeArgumentFirst
    /\ OnceWhenNoRaise
    /\ (ev.finished = "p3" /\ ev.outcome \in Exceptions) =>
          /\ pc[ev.loop] = "call1"
          /\ ev.calls = <<"p3", "p1">>

\* C7 amended: the callback is retried with one argument if the three-argument call
\* raises TypeError; any other exception leaves the tick with that single invocation.
C7_RetriedOnTypeErrorOnly ==
    /\ ThreeArgumentFirst
    /\ OnceWhenNoRaise
    /\ (ev.finished = "p3" /\ ev.outcome = "TypeError") =>
          /\ pc[ev.loop] = "call1"
          /\ ev.calls = <<"p3", "p1">>
    /\ (ev.finished = "p3" /\ ev.outcome = "Exception") =>
          /\ ev.ended = "raised"
          /\ ev.calls = <<"p3">>
          /\ pc[ev.loop] \notin CallStates

\* C7 witness: the three-argument call raised TypeError and the retry is in flight
C7_Witness ==
    /\ ev.finished = "p3"
    /\ ev.outcome = "TypeError"
    /\ pc[ev.loop] = "call1"

\* C9: a proactive invocation appears in a tick only in the step that begins the
\* tick, and only if that step found TODO.md present and readable with "- [ ]" in
\* it, proactive_enabled set, a non-empty chat id and a callback bound.
C9_ProactiveOnlyWhenConfigured ==
    [][\A l \in Loops :
          (InCalls("p3", calls'[l]) /\ ~InCalls("p3", calls[l])) =>
              /\ ev'.began /\ ev'.loop = l
              /\ ev'.todo.exists /\ ev'.todo.ok
              /\ Contains(ev'.todo.content, Unchecked)
              /\ proactive_enabled /\ proactive_chat_id # "" /\ on_heartbeat]_vars

\* C9 witness: a tick has begun with the three-argument proactive call
C9_Witness ==
    /\ ev.began
    /\ ev.calls = <<"p3">>
    /\ pc[ev.loop] = "call3"

\* C10: when the instructions check finds HEARTBEAT.md absent, unreadable or not
\* actionable, the tick ends there without the on-tick call; and a tick that begins
\* without the proactive conditions goes straight to that check, so that it then
\* ends with no invocation at all.
C10_NoCallWhenNotActionable ==
    /\ (ev.step2 /\ (~ev.hb.exists \/ ~ev.hb.ok
                     \/ is_heartbeat_empty(read_heartbeat_file(ev.hb)))) =>
          /\ ~InCalls("hb", ev.calls)
          /\ ev.ended = "returned"
          /\ pc[ev.loop] \notin CallStates
    /\ (ev.began /\ ~(/\ ev.todo.exists /\ ev.todo.ok
                      /\ Contains(ev.todo.content, Unchecked)
                      /\ proactive_enabled /\ proactive_chat_id # "" /\ on_heartbeat)) =>
          /\ ev.step2
          /\ is_heartbeat_empty(read_heartbeat_file(ev.hb)) => ev.calls = <<>>

\* C10 witness: a callback is bound and HEARTBEAT.md is there, with nothing to act
\* on: the tick has ended without an invocation
C10_Witness ==
    /\ ev.began /\ ev.step2
    /\ on_heartbeat
    /\ ev.hb.exists /\ ev.hb.ok
    /\ is_heartbeat_empty(read_heartbeat_file(ev.hb))
    /\ ev.calls = <<>>

\* C14: after any sequence of start() and stop() calls, with the loops running in
\* between, the running flag is true exactly when the service holds a loop task;
\* start() on an enabled service leaves both set, to a task it has just created, and
\* stop() leaves both cleared; on a disabled service start() changes nothing: the flag
\* stays false, no loop task is ever created and no tick is ever executed.
C14_RunningIffHandle ==
    /\ running <=> task # 0
    /\ (ev.kind = "start" /\ enabled) => (running /\ task # 0 /\ pc[task] = "created")
    /\ ev.kind = "stop" => (~running /\ task = 0)
    /\ ~enabled =>
          /\ ~running /\ task = 0
          /\ \A l \in Loops : pc[l] = "unborn" /\ calls[l] = <<>>
          /\ ~ev.began

\* C14 witness: stop() has just cleared the flag and the handle of a service whose
\* loop was in its sleep
C14_Witness ==
    /\ ev.kind = "stop"
    /\ ~running /\ task = 0
    /\ \E l \in Loops : pc[l] = "sleep" /\ cancelReq[l]
\* C15: trigger_now() calls the callback with the heartbeat prompt whenever one is
\* bound, whether or not the service is enabled or running and without reading any
\* file; it calls with one shape first and, if that call raises TypeError, once more
\* with the other shape and the placeholders "cli" and "trigger"; it returns the
\* response of the call that succeeded; with no callback bound it calls nothing and
\* returns None; it never changes the running flag or the loop task handle.
C15_TriggerNowOutOfBand ==
    /\ [](trig.pc = "idle" => ENABLED TriggerNow)
    /\ []((on_heartbeat /\ trig # NoTrigger) =>
              (Len(trig.calls) \in {1, 2} /\ trig.calls[1] = "t1"))
    /\ [](Len(trig.calls) = 2 <=> (trig.raised # <<>> /\ trig.raised[1] = "TypeError"))
    /\ [](Len(trig.calls) = 2 => trig.calls[2] = "t3")
    /\ [](trig.ret = "response1" => (trig.calls = <<"t1">> /\ trig.raised = <<>>))
    /\ [](trig.ret = "response3" =>
              (trig.calls = <<"t1", "t3">> /\ trig.raised = <<"TypeError">>))
    /\ [](~on_heartbeat => (trig.calls = <<>> /\ trig.ret \in {"none", "None"}))
    /\ [](trig.ret = "None" => ~on_heartbeat)
    /\ [][trig' # trig => (running' = running /\ task' = task /\ ev' = ev)]_vars

\* C15 witness: on a disabled service that was never started, trigger_now() has
\* returned the response of the fallback call
C15_Witness ==
    /\ ~enabled /\ ~running /\ task = 0
    /\ trig.pc = "idle"
    /\ trig.ret = "response3"
    /\ trig.calls = <<"t1", "t3">>
\* C16: _is_heartbeat_empty answers "empty" exactly when the content is None or empty,
\* or every one of its lines is, once trimmed, blank, a heading (starts with "#"), a
\* comment line (starts with "<!--") or a bare checkbox ("- [ ]", "* [ ]", "- [x]",
\* "* [x]"); one line of any other kind, "- [ ] a" for one, makes it "non-empty".
C16_EmptyIffNothingActionable ==
    cls.result # "unset" =>
        (cls.result = "empty" <=>
            \/ cls.none
            \/ \A i \in 1..Len(cls.kinds) : cls.kinds[i].kind # "other")

\* C16 witness: a bare checkbox followed by a checkbox with a text is "non-empty"
C16_Witness ==
    /\ ~cls.none
    /\ Len(cls.kinds) = 2
    /\ cls.kinds[1].kind = "checkbox"
    /\ cls.kinds[2].text = Unchecked \o <<" ", "a">>
    /\ cls.result = "non-empty"
\* the last step was a loop's, and left the loop in a callback call it has just made
CallInitiated ==
    /\ ev.kind = "tick"
    /\ ev.ended = "no"
    /\ pc[ev.loop] \in CallStates
    /\ (ev.began \/ ev.finished # "none")

\* C19: once stop() has returned, and until start() is called again, no loop of the
\* service makes a new callback call, wherever in its sleep or tick the stop() found
\* it and however many start() calls came before.
C19_NoCallAfterStop == CallInitiated => running
====
